---- MODULE Spec2Model ----
(***************************************************************************)
(* Model of app.py: the plan validator, the planner with its fallback, the *)
(* in-sandbox Playwright runner, run_in_docker and the /api/run handler.   *)
(***************************************************************************)
EXTENDS Integers, Sequences, FiniteSets, TLC

(***************************************************************************)
(* JSON values, as Python holds them after json.loads / request.get_json:  *)
(* every value carries its type tag t, so that isinstance() is a test on t.*)
(***************************************************************************)
JNull == [t |-> "null"]
JStr(s) == [t |-> "str", v |-> s]
JList(q) == [t |-> "list", v |-> q]
JDict(f) == [t |-> "dict", v |-> f]

EmptyDict == [k \in {} |-> JNull]

isinstance(x, ty) == x.t = ty

\* dict.get(key): the value, or None when the key is absent.
dict_get(d, key) == IF key \in DOMAIN d.v THEN d.v[key] ELSE JNull

\* dict.get(key, default).
dict_get_default(d, key, default) == IF key \in DOMAIN d.v THEN d.v[key] ELSE default

\* Lists and dicts are unhashable: using one as a set member raises TypeError.
unhashable(x) == x.t \in {"list", "dict"}

(***************************************************************************)
(* Bounds of the explored inputs.                                          *)
(***************************************************************************)
\* longest plan enumerated step by step for the validator
MaxPlanLen == 2
\* longest client-supplied plan enumerated for the run endpoint
MaxRunPlanLen == 2

(***************************************************************************)
(* Program constants.                                                      *)
(***************************************************************************)
\* line 101 with a tool the runner has no branch for
ALLOWED_TOOLS_with_eval == {"go", "click", "type", "eval"}

\* line 101
ALLOWED_TOOLS == {"go", "click", "type"}
MaxSteps == 10
DEFAULT_PRODUCT_URL == "https://chikarahouses.com/products/hardcover-bound-notebook-3"
DefaultNote == "Shibuya Tokyo Cyberpunk demo note."
DefaultGoal == "Demo: add product to cart, open cart, and type special instructions."

(***************************************************************************)
(* validate_plan.  The result is what the call does: it returns (ok, msg)  *)
(* or it raises.  msg keeps the f-string's template and the interpolated   *)
(* step index (NoIdx for the three plan-level messages).                   *)
(***************************************************************************)
NoIdx == -1
Returned(ok, fmt, i) == [raised |-> FALSE, ok |-> ok, msg |-> [fmt |-> fmt, i |-> i]]
Raised(what) == [raised |-> TRUE, ok |-> FALSE, msg |-> [fmt |-> what, i |-> NoIdx]]

RequiredKeys(tool) ==
  CASE tool = "go" -> {"url"}
    [] tool = "click" -> {"text"}
    [] tool = "type" -> {"label", "value"}
    [] OTHER -> {}

\* lines 126-134 with the key sets compared by <= in place of ==
args_keys_ok_subset(tool, args) == RequiredKeys(tool) \subseteq DOMAIN args.v

\* lines 126-134: the key set of args must equal the tool's key set
args_keys_ok(tool, args) == DOMAIN args.v = RequiredKeys(tool)

\* the body of the for loop, lines 117-134: "pass" when the step is accepted
validate_step(step, i) ==
  IF ~isinstance(step, "dict") THEN Returned(FALSE, "Step {i} must be an object.", i)
  ELSE LET tool == dict_get(step, "tool")
           args == dict_get_default(step, "args", JDict(EmptyDict))
       IN IF unhashable(tool) THEN Raised("TypeError: unhashable type")
          ELSE IF ~(isinstance(tool, "str") /\ tool.v \in ALLOWED_TOOLS)
            THEN Returned(FALSE, "Step {i}: tool '{tool}' not allowed.", i)
          ELSE IF ~isinstance(args, "dict")
            THEN Returned(FALSE, "Step {i}: args must be an object.", i)
          ELSE IF tool.v \in {"go", "click", "type"} /\ ~args_keys_ok(tool.v, args)
            THEN Returned(FALSE,
                   CASE tool.v = "go" -> "Step {i}: go expects args {url} only."
                     [] tool.v = "click" -> "Step {i}: click expects args {text} only."
                     [] OTHER -> "Step {i}: type expects args {label, value} only.", i)
          ELSE Returned(TRUE, "pass", i)

\* the for loop of lines 116-136, from list position k (1-based; Python's i is k-1)
RECURSIVE validate_from(_, _)
validate_from(steps, k) ==
  IF k > Len(steps) THEN Returned(TRUE, "ok", NoIdx)
  ELSE LET r == validate_step(steps[k], k - 1)
       IN IF r.raised \/ ~r.ok THEN r ELSE validate_from(steps, k + 1)

validate_plan(plan) ==
  IF ~isinstance(plan, "list") THEN Returned(FALSE, "Plan must be a list.", NoIdx)
  ELSE IF Len(plan.v) = 0 THEN Returned(FALSE, "Plan is empty.", NoIdx)
  ELSE IF Len(plan.v) > MaxSteps THEN Returned(FALSE, "Plan too long (max 10 steps).", NoIdx)
  ELSE validate_from(plan.v, 1)

(***************************************************************************)
(* Planner.                                                                *)
(***************************************************************************)
Step(tool, args) == JDict([k \in {"tool", "args"} |->
                              IF k = "tool" THEN JStr(tool) ELSE JDict(args)])

GoArgs(url) == [k \in {"url"} |-> JStr(url)]
ClickArgs(text) == [k \in {"text"} |-> JStr(text)]
TypeArgs(label, value) == [k \in {"label", "value"} |->
                              IF k = "label" THEN JStr(label) ELSE JStr(value)]

\* the fallback plan with the two clicks in the wrong order
deterministic_demo_plan_swapped(note_text) ==
  JList(<< Step("go", GoArgs(DEFAULT_PRODUCT_URL)),
           Step("click", ClickArgs("View cart")),
           Step("click", ClickArgs("Add to cart")),
           Step("type", TypeArgs("Order special instructions", note_text)) >>)

deterministic_demo_plan(note_text) ==
  JList(<< Step("go", GoArgs(DEFAULT_PRODUCT_URL)),
           Step("click", ClickArgs("Add to cart")),
           Step("click", ClickArgs("View cart")),
           Step("type", TypeArgs("Order special instructions", note_text)) >>)


\* json.loads on the completion texts the model explores: the parsed value, or
\* err for text that is not JSON (json.JSONDecodeError).
Parsed(v) == [err |-> FALSE, value |-> v]
ParseError == [err |-> TRUE, value |-> JNull]

Contents ==
  { "",
    "Sure! Here is the plan: go to the product page.",
    "Plan:\n[{\"tool\":\"go\",\"args\":{\"url\":\"https://chikarahouses.com/cart\"}}]",
    "null",
    "{\"tool\":\"go\",\"args\":{\"url\":\"https://chikarahouses.com/cart\"}}",
    "[]",
    "[{\"tool\":\"go\",\"args\":{\"url\":\"https://chikarahouses.com/cart\"}}]",
    "[{\"tool\":\"go\",\"args\":{\"url\":\"https://chikarahouses.com/cart\"}},{\"tool\":\"click\",\"args\":{\"text\":\"Check out\"}}]",
    "[{\"tool\":\"eval\",\"args\":{\"code\":\"fetch('/admin')\"}}]",
    "[{\"tool\":\"go\",\"args\":{\"url\":\"https://chikarahouses.com/cart\",\"timeout\":\"0\"}}]",
    "[{\"tool\":\"click\"}]",
    "[{\"tool\":[\"go\"],\"args\":{\"url\":\"https://chikarahouses.com/cart\"}}]",
    "[\"go\"]" }

CartUrl == "https://chikarahouses.com/cart"

json_loads(txt) ==
  CASE txt = "null" -> Parsed(JNull)
    [] txt = "{\"tool\":\"go\",\"args\":{\"url\":\"https://chikarahouses.com/cart\"}}" ->
         Parsed(Step("go", GoArgs(CartUrl)))
    [] txt = "[]" -> Parsed(JList(<<>>))
    [] txt = "[{\"tool\":\"go\",\"args\":{\"url\":\"https://chikarahouses.com/cart\"}}]" ->
         Parsed(JList(<< Step("go", GoArgs(CartUrl)) >>))
    [] txt = "[{\"tool\":\"go\",\"args\":{\"url\":\"https://chikarahouses.com/cart\"}},{\"tool\":\"click\",\"args\":{\"text\":\"Check out\"}}]" ->
         Parsed(JList(<< Step("go", GoArgs(CartUrl)), Step("click", ClickArgs("Check out")) >>))
    [] txt = "[{\"tool\":\"eval\",\"args\":{\"code\":\"fetch('/admin')\"}}]" ->
         Parsed(JList(<< Step("eval", [k \in {"code"} |-> JStr("fetch('/admin')")]) >>))
    [] txt = "[{\"tool\":\"go\",\"args\":{\"url\":\"https://chikarahouses.com/cart\",\"timeout\":\"0\"}}]" ->
         Parsed(JList(<< Step("go", [k \in {"url", "timeout"} |->
                                       IF k = "url" THEN JStr(CartUrl) ELSE JStr("0")]) >>))
    [] txt = "[{\"tool\":\"click\"}]" ->
         Parsed(JList(<< JDict([k \in {"tool"} |-> JStr("click")]) >>))
    [] txt = "[{\"tool\":[\"go\"],\"args\":{\"url\":\"https://chikarahouses.com/cart\"}}]" ->
         Parsed(JList(<< JDict([k \in {"tool", "args"} |->
                           IF k = "tool" THEN JList(<< JStr("go") >>)
                           ELSE JDict(GoArgs(CartUrl))]) >>))
    [] txt = "[\"go\"]" -> Parsed(JList(<< JStr("go") >>))
    [] OTHER -> ParseError

\* lines 202-209 with the validation left out
groq_plan_parse_unchecked(txt, note) ==
  LET p == json_loads(txt)
  IN IF p.err THEN deterministic_demo_plan(note) ELSE p.value

\* lines 202-209: parse and validate inside try, any exception falls back
groq_plan_parse(txt, note) ==
  LET p == json_loads(txt)
  IN IF p.err THEN deterministic_demo_plan(note)
     ELSE LET r == validate_plan(p.value)
          IN IF r.raised THEN deterministic_demo_plan(note)
             ELSE IF ~r.ok THEN deterministic_demo_plan(note)
             ELSE p.value

\* str.strip() on the request strings the model explores
strip(s) ==
  CASE s = "   " -> ""
    [] s = " gift wrap " -> "gift wrap"
    [] s = " buy a notebook " -> "buy a notebook"
    [] OTHER -> s

\* (data.get(key) or "").strip()
get_stripped(d, key) ==
  LET x == dict_get(d, key) IN IF isinstance(x, "str") THEN strip(x.v) ELSE ""


(***************************************************************************)
(* Text that the code slices or rewrites character by character is a       *)
(* sequence of one-character strings.                                      *)
(***************************************************************************)
\* s[-n:]
TailChars(s, n) == IF Len(s) <= n THEN s ELSE SubSeq(s, Len(s) - n + 1, Len(s))

\* s[:n]
HeadChars(s, n) == IF Len(s) <= n THEN s ELSE SubSeq(s, 1, n)

\* "\nMissing result.json or final.png"
MissingNote ==
  << "\n", "M", "i", "s", "s", "i", "n", "g", " ", "r", "e", "s", "u", "l",
     "t", ".", "j", "s", "o", "n", " ", "o", "r", " ", "f", "i", "n", "a",
     "l", ".", "p", "n", "g" >>

\* a short Python traceback tail, and streams longer than every slice taken
ShortText ==
  << "E", "r", "r", "o", "r", ":", " ", "b", "o", "o", "m", "\n" >>

LongText ==
  SubSeq([i \in 1..3001 |-> IF i = 1 THEN "H" ELSE IF i % 50 = 0 THEN "\n" ELSE "x"], 1, 3001)

\* (stdout, stderr) of the container, as proc.communicate() returns them decoded
StreamPairs ==
  { [stdout |-> << >>, stderr |-> << >>],
    [stdout |-> << >>, stderr |-> ShortText],
    [stdout |-> LongText, stderr |-> LongText] }

\* page.content() of the blank page, of a small page, and of a page longer
\* than the preview limit
BlankHtml ==
  << "<", "h", "t", "m", "l", ">", "<", "h", "e", "a", "d", ">", "<", "/",
     "h", "e", "a", "d", ">", "<", "b", "o", "d", "y", ">", "<", "/", "b",
     "o", "d", "y", ">", "<", "/", "h", "t", "m", "l", ">" >>

SmallHtml ==
  << "<", "h", "t", "m", "l", ">", "\n", "\t", "<", "b", "o", "d", "y", ">",
     "Y", "o", "u", "r", " ", "c", "a", "r", "t", "<", "/", "b", "o", "d",
     "y", ">", "\n", "<", "/", "h", "t", "m", "l", ">" >>

LongHtml ==
  SubSeq([i \in 1..1003 |-> IF i % 40 = 0 THEN "\n" ELSE IF i % 40 = 1 THEN "\t" ELSE "d"],
         1, 1003)

DOM_PREVIEW_LIMIT == 1000

\* html.replace("\n", " ").replace("\t", " ")
replace_ws(html) == [i \in 1..Len(html) |-> IF html[i] \in {"\n", "\t"} THEN " " ELSE html[i]]

\* lines 283-285
dom_preview(html) == HeadChars(replace_ws(html), DOM_PREVIEW_LIMIT)


(***************************************************************************)
(* State.                                                                  *)
(***************************************************************************)
VARIABLES
  groq_client,     \* TRUE when GROQ_API_KEY is set (line 68)
  data,            \* the request body of /api/run
  content,         \* the completion text groq_plan received (line 200)
  pc,              \* position of the handler
  goal, note_text, \* locals of api_run
  plan,            \* local plan of api_run
  verdict,         \* (ok, msg) of the last validate_plan call
  run_id,          \* local run_id of api_run
  runs,            \* table runs of demo.db: run id -> row
  work,            \* files of docker_work/<run_id>: name -> content
  artifacts,       \* files of artifacts/: name -> content
  proc,            \* the docker process
  r_pc,            \* position of the runner inside the container
  idx,             \* loop index of the runner
  out,             \* the runner's result dict
  page,            \* the browser page: url and title
  loc,             \* the locator click_by_text / type_by_label ended with
  dom,             \* which tiers of the fallback chain match on the page
  exec_out,        \* what run_in_docker returned
  vision_summary,  \* what groq_vision_verify returned
  response,        \* the HTTP response of the handler
  handlers,        \* concurrent /api/run handlers: handler -> its locals
  work_dirs,       \* docker_work/: run id -> the files of that directory
  procs            \* the docker process each concurrent handler created

vars == << groq_client, data, content, pc, goal, note_text, plan, verdict, run_id, runs,
           work, artifacts, proc, r_pc, idx, out, page, loc, dom, exec_out,
           vision_summary, response, handlers, work_dirs, procs >>

conc_vars == << handlers, work_dirs, procs >>
handler_vars == << data, content, goal, note_text, run_id, exec_out, vision_summary, response >>
store_vars == << runs, artifacts >>
runner_vars == << r_pc, idx, out, page, loc, dom >>

NoVerdict == [raised |-> FALSE, ok |-> FALSE, msg |-> [fmt |-> "", i |-> NoIdx]]
NoProc == [state |-> "none", returncode |-> 0, stdout |-> << >>, stderr |-> << >>]
NoOut == [ok |-> TRUE, steps |-> << >>, final_url |-> JNull, final_title |-> JNull,
          final_dom_preview |-> JNull, final_screenshot |-> JNull]
BlankPage == [url |-> "about:blank", title |-> ""]
NoDom == [a |-> 0, b |-> 0, c |-> 0]
NoResponse == [status |-> 0, body |-> JNull]
EmptyFiles == [n \in {} |-> JNull]

(***************************************************************************)
(* The plans explored.                                                     *)
(***************************************************************************)
Absent == [t |-> "absent"]

\* a step dict holding the given tool and args, each left out when Absent
MkStep(tool, args) ==
  JDict([k \in {x \in {"tool", "args"} : IF x = "tool" THEN tool # Absent ELSE args # Absent}
           |-> IF k = "tool" THEN tool ELSE args])

SampleTools ==
  { JStr("go"), JStr("click"), JStr("type"), JStr("eval"), Absent, JList(<< JStr("go") >>) }

SampleArgs ==
  { Absent, JStr("https://chikarahouses.com/cart"), JDict(EmptyDict),
    JDict(GoArgs(CartUrl)), JDict(ClickArgs("Add to cart")),
    JDict(TypeArgs("Order special instructions", "gift wrap")),
    JDict([k \in {"url", "timeout"} |-> IF k = "url" THEN JStr(CartUrl) ELSE JStr("0")]),
    JDict([k \in {"label"} |-> JStr("Order special instructions")]) }

SampleSteps ==
  { MkStep(tl, a) : tl \in SampleTools, a \in SampleArgs }
    \cup { JStr("go"), JNull,
           JDict([k \in {"tool", "args", "comment"} |->
                    CASE k = "tool" -> JStr("go")
                      [] k = "args" -> JDict(GoArgs(CartUrl))
                      [] OTHER -> JStr("extra top-level key")]) }

SeqsUpTo(S, n) == UNION { [1..m -> S] : m \in 0..n }

\* fillers of the plans of 10 and 11 steps
LongFillers ==
  { Step("go", GoArgs(CartUrl)), Step("eval", GoArgs(CartUrl)), JStr("go"),
    MkStep(JList(<< JStr("go") >>), Absent) }

SamplePlans ==
  { JList(q) : q \in SeqsUpTo(SampleSteps, MaxPlanLen) }
    \cup { JList([i \in 1..n |-> s]) : n \in {MaxSteps, MaxSteps + 1}, s \in LongFillers }
    \cup { JList([i \in 1..MaxSteps |-> IF i = MaxSteps THEN s ELSE Step("go", GoArgs(CartUrl))]) :
             s \in LongFillers }
    \cup { deterministic_demo_plan(DefaultNote), JNull, JStr("go"),
           Step("go", GoArgs(CartUrl)) }

(***************************************************************************)
(* validate_plan applied to one input.                                     *)
(***************************************************************************)
NoContent == "(no completion)"

InitBase ==
  /\ content = NoContent
  /\ goal = ""
  /\ note_text = ""
  /\ verdict = NoVerdict
  /\ run_id = ""
  /\ runs = EmptyFiles
  /\ work = EmptyFiles
  /\ artifacts = EmptyFiles
  /\ proc = NoProc
  /\ r_pc = "none"
  /\ idx = 0
  /\ out = NoOut
  /\ page = BlankPage
  /\ loc = "none"
  /\ dom = NoDom
  /\ exec_out = JNull
  /\ vision_summary = JNull
  /\ response = NoResponse

\* no concurrent handlers
InitOneRun ==
  /\ handlers = << >>
  /\ work_dirs = EmptyFiles
  /\ procs = << >>

InitValidator ==
  /\ InitBase
  /\ InitOneRun
  /\ groq_client = FALSE
  /\ data = JDict(EmptyDict)
  /\ pc = "call_validate"
  /\ plan \in SamplePlans

validate_call ==
  /\ pc = "call_validate"
  /\ verdict' = validate_plan(plan)
  /\ pc' = "returned"
  /\ UNCHANGED << groq_client, conc_vars, plan, handler_vars, store_vars, work, proc, runner_vars >>

NextValidator == validate_call

SpecValidator == InitValidator /\ [][NextValidator]_vars


(***************************************************************************)
(* /api/run: the requests explored.                                        *)
(***************************************************************************)
RunSteps ==
  { Step("go", GoArgs(CartUrl)),
    Step("click", ClickArgs("Add to cart")),
    Step("type", TypeArgs("Order special instructions", "gift wrap")),
    Step("eval", [k \in {"code"} |-> JStr("fetch('/admin')")]),
    Step("go", [k \in {"url", "timeout"} |-> IF k = "url" THEN JStr(CartUrl) ELSE JStr("0")]),
    Step("go", [k \in {"url"} |-> JNull]),
    MkStep(JStr("click"), Absent),
    MkStep(JList(<< JStr("go") >>), JDict(GoArgs(CartUrl))) }

ClientPlans ==
  { JNull, JStr("go") }
    \cup { JList(q) : q \in SeqsUpTo(RunSteps, MaxRunPlanLen) }
    \cup { JList([i \in 1..(MaxSteps + 1) |-> Step("go", GoArgs(CartUrl))]) }

Request(g, n, p) ==
  JDict([k \in {"goal", "note_text", "plan"} |->
           CASE k = "goal" -> g [] k = "note_text" -> n [] OTHER -> p])

\* goal and note vary where the planner is asked; a client's plan comes with one
\* goal and one note
Requests ==
  { Request(g, n, JNull) : g \in {JNull, JStr(" buy a notebook ")},
                           n \in {JStr("   "), JStr(" gift wrap ")} }
    \cup { Request(JNull, JStr(" gift wrap "), p) : p \in ClientPlans }

RunIds == {"3f2a9c01de"}

Init ==
  /\ InitBase
  /\ InitOneRun
  /\ groq_client \in BOOLEAN
  /\ data \in Requests
  /\ pc = "start"
  /\ plan = JNull

\* an exception that leaves the view function: Flask answers 500
Unhandled(where) == [status |-> 500, body |-> JStr(where)]

(***************************************************************************)
(* api_run up to the sandbox launch.                                       *)
(***************************************************************************)
\* lines 479-491: read the request; take the client's plan when it is a list,
\* else call groq_plan, which returns at once when no client is configured
api_run_begin ==
  /\ pc = "start"
  /\ LET g == get_stripped(data, "goal")
         n == get_stripped(data, "note_text")
         nt == IF n = "" THEN DefaultNote ELSE n
         p == dict_get(data, "plan")
     IN /\ goal' = IF g = "" THEN DefaultGoal ELSE g
        /\ note_text' = nt
        /\ IF isinstance(p, "list")
             THEN plan' = p /\ pc' = "validate"
             ELSE IF ~groq_client
               THEN plan' = deterministic_demo_plan(nt) /\ pc' = "validate"
               ELSE plan' = p /\ pc' = "groq_call"
  /\ UNCHANGED << groq_client, conc_vars, data, content, verdict, run_id, exec_out, vision_summary, response,
                  store_vars, work, proc, runner_vars >>

\* lines 200-209: the completion returned text
groq_call_returns(c) ==
  /\ pc = "groq_call"
  /\ content' = c
  /\ plan' = groq_plan_parse(c, note_text)
  /\ pc' = "validate"
  /\ UNCHANGED << groq_client, conc_vars, verdict, data, goal, note_text, run_id, exec_out,
                  vision_summary, response, store_vars, work, proc, runner_vars >>

\* lines 188-200: the completion call raised, or message.content was None and
\* .strip() raised; the await is outside the try
groq_call_raises ==
  /\ pc = "groq_call"
  /\ pc' = "crashed"
  /\ response' = Unhandled("groq_plan")
  /\ UNCHANGED << groq_client, conc_vars, plan, verdict, data, content, goal, note_text, run_id, exec_out,
                  vision_summary, store_vars, work, proc, runner_vars >>

\* lines 493-495 with the replacement left out
chosen_plan_unchecked(p, r, note) == p

\* lines 494-495: the plan that goes on, given validate_plan's verdict r
chosen_plan(p, r, note) == IF r.ok THEN p ELSE deterministic_demo_plan(note)

\* lines 493-495
api_run_validate ==
  /\ pc = "validate"
  /\ LET r == validate_plan(plan)
     IN /\ verdict' = r
        /\ IF r.raised
             THEN /\ pc' = "crashed"
                  /\ response' = Unhandled("validate_plan")
                  /\ plan' = plan
             ELSE /\ pc' = "insert"
                  /\ response' = response
                  /\ plan' = chosen_plan(plan, r, note_text)
  /\ UNCHANGED << groq_client, conc_vars, data, content, goal, note_text, run_id, exec_out, vision_summary,
                  store_vars, work, proc, runner_vars >>

\* lines 500-504 with the plan column left for the later UPDATE
run_row_without_plan(g, p) == [user_goal |-> g, plan_json |-> JNull, result_json |-> JNull]

\* lines 500-504: the row the INSERT writes; result_json is not among its
\* columns and stays NULL
run_row(g, p) == [user_goal |-> g, plan_json |-> p, result_json |-> JNull]

\* lines 497-504: the run row, result_json NULL.  The request body is not read
\* after line 484 and groq_plan's locals are gone, so both are dropped here.
api_run_insert(id) ==
  /\ pc = "insert"
  /\ id \notin DOMAIN runs
  /\ run_id' = id
  /\ runs' = (id :> run_row(goal, plan)) @@ runs
  /\ data' = JDict(EmptyDict)
  /\ content' = NoContent
  /\ pc' = "launch"
  /\ UNCHANGED << groq_client, conc_vars, plan, verdict, goal, note_text, exec_out, vision_summary,
                  response, artifacts, work, proc, runner_vars >>

\* lines 385-411: write request.json and runner.py, start the container
run_in_docker_launch ==
  /\ pc = "launch"
  /\ work' = [n \in {"request.json", "runner.py"} |->
                IF n = "request.json"
                  THEN [kind |-> "json", doc |-> [plan |-> plan, headless |-> TRUE]]
                  ELSE [kind |-> "py", doc |-> [plan |-> JNull, headless |-> TRUE]]]
  /\ proc' = [NoProc EXCEPT !.state = "running"]
  /\ r_pc' = "start"
  /\ pc' = "waiting"
  /\ UNCHANGED << groq_client, conc_vars, plan, verdict, handler_vars, store_vars,
                  idx, out, page, loc, dom >>


(***************************************************************************)
(* PLAYWRIGHT_RUNNER: the program run inside the container.                *)
(***************************************************************************)
JChars(q) == [t |-> "chars", v |-> q]

MatchCounts == {0, 1}
Doms == [a : MatchCounts, b : MatchCounts, c : MatchCounts]

\* lines 289-294 with the second test made on the link tier alone
click_locator_link_decides(d) ==
  LET l1 == "role=button"
      l2 == IF d.a = 0 THEN "role=link" ELSE l1
      l3 == IF d.b = 0 THEN "text=" ELSE l2
  IN l3

\* lines 289-294: the locator click_by_text ends with; a, b, c count the
\* matches of role=button, role=link and text=
click_locator(d) ==
  LET l1 == "role=button"
      l2 == IF d.a = 0 THEN "role=link" ELSE l1
      n2 == IF l2 = "role=button" THEN d.a ELSE d.b
      l3 == IF n2 = 0 THEN "text=" ELSE l2
  IN l3

\* lines 298-303: the locator type_by_label ends with; a, b, c count the
\* matches of the label, the placeholder and the text-then-sibling locator
type_locator(d) ==
  LET l1 == "label"
      l2 == IF d.a = 0 THEN "placeholder" ELSE l1
      n2 == IF l2 = "label" THEN d.a ELSE d.b
      l3 == IF n2 = 0 THEN "text= .. textarea, input" ELSE l2
  IN l3

locator_count(l, d) ==
  CASE l \in {"role=button", "label"} -> d.a
    [] l \in {"role=link", "placeholder"} -> d.b
    [] OTHER -> d.c

CartPage == [url |-> CartUrl, title |-> "Your cart"]

\* the page a successful goto lands on
page_at(url) ==
  [url |-> url,
   title |-> IF url = CartUrl THEN "Your cart"
             ELSE IF url = DEFAULT_PRODUCT_URL THEN "ZenPath Hardcover Goal Notebook 3"
             ELSE ""]

\* What the browser does to one step: which tiers match (dom), whether the
\* action (goto, click, fill) returns or raises, where a click lands, and
\* whether page.title() returns or raises.
StepEnvs(tool) ==
  CASE tool = "go" ->
         { [dom |-> NoDom, act |-> e[1], nav |-> "stay", title |-> e[2]] :
             e \in { <<"ok", "ok">>, <<"ok", "raise">>, <<"raise", "ok">> } }
    [] tool = "click" ->
         { [dom |-> d, act |-> e[1], nav |-> e[2], title |-> e[3]] :
             d \in Doms,
             e \in { <<"ok", "stay", "ok">>, <<"ok", "cart", "ok">>,
                     <<"ok", "stay", "raise">>, <<"raise", "stay", "ok">> } }
    [] tool = "type" ->
         { [dom |-> d, act |-> e[1], nav |-> "stay", title |-> e[2]] :
             d \in Doms,
             e \in { <<"ok", "ok">>, <<"ok", "raise">>, <<"raise", "ok">> } }
    [] OTHER -> { [dom |-> NoDom, act |-> "raise", nav |-> "stay", title |-> "ok"] }

has_key(args, k) == isinstance(args, "dict") /\ k \in DOMAIN args.v

\* lines 332-350: one pass through the try block.  The result carries the
\* exception text (JNull when none), the page afterwards and the locator used.
try_step(tool, args, env, pg) ==
  LET failed(msg, p2, l) == [ok |-> FALSE, error |-> JStr(msg), page |-> p2, loc |-> l]
      titled(p2, l) ==
        IF env.title = "raise"
          THEN failed("Page.title: Execution context was destroyed", p2, l)
          ELSE [ok |-> TRUE, error |-> JNull, page |-> p2, loc |-> l]
  IN IF tool = JStr("go") THEN
          IF ~has_key(args, "url") THEN failed("KeyError: 'url'", pg, "none")
          ELSE IF ~isinstance(args.v["url"], "str")
            THEN failed("Page.goto: url: expected string", pg, "none")
          ELSE IF env.act = "raise"
            THEN failed("Page.goto: net::ERR_NAME_NOT_RESOLVED", pg, "none")
          ELSE titled(page_at(args.v["url"].v), "none")
     ELSE IF tool = JStr("click") THEN
          IF ~has_key(args, "text") THEN failed("KeyError: 'text'", pg, "none")
          ELSE LET l == click_locator(env.dom)
               IN IF locator_count(l, env.dom) = 0 \/ env.act = "raise"
                    THEN failed("Locator.click: Timeout 15000ms exceeded.", pg, l)
                    ELSE titled(IF env.nav = "cart" THEN CartPage ELSE pg, l)
     ELSE IF tool = JStr("type") THEN
          IF ~has_key(args, "label") THEN failed("KeyError: 'label'", pg, "none")
          ELSE IF ~has_key(args, "value") THEN failed("KeyError: 'value'", pg, "none")
          ELSE LET l == type_locator(env.dom)
               IN IF locator_count(l, env.dom) = 0 \/ env.act = "raise"
                    THEN failed("Locator.fill: Timeout 15000ms exceeded.", pg, l)
                    ELSE titled(pg, l)
     ELSE failed("Unknown tool: {tool}", pg, "none")

\* the request the runner loaded (lines 307-311)
req_plan == work["request.json"].doc.plan

\* the traceback of an uncaught exception goes to stderr
Traceback == [stdout |-> << >>, stderr |-> ShortText]

\* what a runner that ends normally has printed: nothing, or more than any
\* slice keeps
ExitStreams == { sp \in StreamPairs : sp.stdout = sp.stderr }

Exited(rc, sp) ==
  [state |-> "exited", returncode |-> rc, stdout |-> sp.stdout, stderr |-> sp.stderr]

\* lines 307-325: load the request, build out, open the browser and a page
runner_start ==
  /\ proc.state = "running"
  /\ r_pc = "start"
  /\ out' = [NoOut EXCEPT !.final_screenshot = JStr("artifacts/final.png")]
  /\ page' = BlankPage
  /\ idx' = 0
  /\ r_pc' = IF Len(req_plan.v) = 0 THEN "final" ELSE "loop"
  /\ UNCHANGED << groq_client, conc_vars, pc, plan, verdict, handler_vars, store_vars, work, proc,
                  loc, dom >>

\* lines 353-355 with the break left out
after_step_no_break(ok, n, len) == IF n = len THEN "final" ELSE "loop"

\* lines 353-355 and the loop header: where the runner goes after recording
\* step n of len
after_step(ok, n, len) == IF ~ok \/ n = len THEN "final" ELSE "loop"

\* the step at the loop index
cur_step == req_plan.v[idx + 1]

\* the step reaches click_by_text or type_by_label: its fields and the call's
\* arguments are all found
locates(step) ==
  /\ has_key(step, "tool") /\ has_key(step, "args")
  /\ \/ step.v["tool"] = JStr("click") /\ has_key(step.v["args"], "text")
     \/ /\ step.v["tool"] = JStr("type")
        /\ has_key(step.v["args"], "label") /\ has_key(step.v["args"], "value")

\* lines 289-294 and 298-303: the fallback chain picks the locator; d is what
\* the three count() calls see on the page
runner_locate(d) ==
  /\ proc.state = "running"
  /\ r_pc = "loop"
  /\ locates(cur_step)
  /\ dom' = d
  /\ loc' = IF cur_step.v["tool"] = JStr("click") THEN click_locator(d) ELSE type_locator(d)
  /\ r_pc' = "located"
  /\ UNCHANGED << groq_client, conc_vars, pc, plan, verdict, handler_vars, store_vars, work, proc,
                  idx, out, page >>

\* lines 348-353 with line 351 left out
record_step_ok_kept(o, step_out) == [o EXCEPT !.steps = Append(@, step_out)]

\* lines 348-353: the step's entry goes on the list; a failed step clears the
\* overall ok
record_step(o, step_out) ==
  [o EXCEPT !.steps = Append(@, step_out), !.ok = IF step_out.ok THEN @ ELSE FALSE]

\* lines 327-355: one iteration of the step loop (for click and type, from
\* the located target on); loc and dom are locals of the two helpers and are
\* gone when they return
runner_step(env) ==
  /\ proc.state = "running"
  /\ \/ r_pc = "loop" /\ ~locates(cur_step)
     \/ r_pc = "located" /\ env.dom = dom
  /\ LET step == cur_step
     IN IF ~(has_key(step, "tool") /\ has_key(step, "args"))
          THEN \* lines 328-329 are outside the try: the runner dies
               /\ proc' = Exited(1, Traceback)
               /\ r_pc' = "crashed"
               /\ UNCHANGED << idx, out, page, loc, dom >>
          ELSE LET tool == step.v["tool"]
                   args == step.v["args"]
               IN /\ env \in StepEnvs(IF isinstance(tool, "str") THEN tool.v ELSE "")
                  /\ LET r == try_step(tool, args, env, page)
                         step_out == [idx |-> idx, tool |-> tool, args |-> args,
                                      ok |-> r.ok, error |-> r.error,
                                      url |-> IF r.ok THEN JStr(r.page.url) ELSE JNull,
                                      title |-> IF r.ok THEN JStr(r.page.title) ELSE JNull]
                     IN /\ out' = record_step(out, step_out)
                        /\ page' = r.page
                        /\ loc' = "none"
                        /\ dom' = NoDom
                        /\ idx' = idx + 1
                        /\ r_pc' = after_step(r.ok, idx + 1, Len(req_plan.v))
                  /\ proc' = proc
  /\ UNCHANGED << groq_client, conc_vars, pc, plan, verdict, handler_vars, store_vars, work >>

\* page.content() of the page the browser is on
HtmlsOf(pg) ==
  IF pg = BlankPage THEN {BlankHtml} ELSE IF pg = CartPage THEN {LongHtml} ELSE {SmallHtml}

Png(pg) == [kind |-> "png", doc |-> [plan |-> JStr(pg.url), headless |-> TRUE]]

\* lines 357-371: the final capture returned; result.json is written and the
\* process exits 0
runner_final_capture(html, sp) ==
  /\ proc.state = "running"
  /\ r_pc = "final"
  /\ html \in HtmlsOf(page)
  /\ LET o == [out EXCEPT !.final_url = JStr(page.url),
                          !.final_title = JStr(page.title),
                          !.final_dom_preview = JChars(dom_preview(html))]
     IN /\ out' = o
        /\ work' = [n \in DOMAIN work \cup {"final.png", "result.json"} |->
                      CASE n = "final.png" -> Png(page)
                        [] n = "result.json" -> [kind |-> "json", doc |-> o]
                        [] OTHER -> work[n]]
  /\ proc' = Exited(0, sp)
  /\ r_pc' = "exited"
  /\ UNCHANGED << groq_client, conc_vars, pc, plan, verdict, handler_vars, store_vars,
                  idx, page, loc, dom >>

\* lines 357-364: page.title(), page.screenshot() or page.content() raised;
\* nothing catches it, the process exits 1.  Only a raise of page.content()
\* comes after the screenshot file was written.
runner_final_capture_raises(at, sp) ==
  /\ proc.state = "running"
  /\ r_pc = "final"
  /\ work' = IF at = "content"
               THEN [n \in DOMAIN work \cup {"final.png"} |->
                       IF n = "final.png" THEN Png(page) ELSE work[n]]
               ELSE work
  /\ out' = IF at = "title" THEN [out EXCEPT !.final_url = JStr(page.url)]
            ELSE [out EXCEPT !.final_url = JStr(page.url), !.final_title = JStr(page.title)]
  /\ proc' = Exited(1, sp)
  /\ r_pc' = "crashed"
  /\ UNCHANGED << groq_client, conc_vars, pc, plan, verdict, handler_vars, store_vars,
                  idx, page, loc, dom >>

\* The container ended without running the protocol against this work area
\* (docker or the image failed, or the image's command did something else):
\* any exit code, and any of the two artifacts left behind; exit 0 with both
\* artifacts is the protocol's own outcome and is not produced here.
docker_run_other(rc, written, sp) ==
  /\ proc.state = "running"
  /\ r_pc = "start"
  /\ rc # 0 \/ written # {"result.json", "final.png"}
  /\ work' = [n \in DOMAIN work \cup written |->
                IF n \in written
                  THEN [kind |-> "partial", doc |-> [plan |-> JNull, headless |-> TRUE]]
                  ELSE work[n]]
  /\ proc' = Exited(rc, sp)
  /\ r_pc' = "exited"
  /\ UNCHANGED << groq_client, conc_vars, pc, plan, verdict, handler_vars, store_vars,
                  idx, out, page, loc, dom >>


(***************************************************************************)
(* run_in_docker after the process exited, and the rest of api_run.        *)
(***************************************************************************)
\* lines 416-422
launch_failure(rc, stdout, stderr) ==
  [ok |-> FALSE, docker_returncode |-> rc,
   stdout |-> TailChars(stdout, 3000), stderr |-> TailChars(stderr, 3000)]

\* line 429 with the slice taken from the front
protocol_stderr_front(stderr) == HeadChars(stderr \o MissingNote, 3000)

\* line 429
protocol_stderr(stderr) == TailChars(stderr \o MissingNote, 3000)

\* lines 424-430
protocol_failure(rc, stdout, stderr) ==
  [ok |-> FALSE, docker_returncode |-> rc,
   stdout |-> TailChars(stdout, 2000), stderr |-> protocol_stderr(stderr)]

FinalName(id) == << id, "_final.png" >>
JsonName(id) == << id, "_output.json" >>

\* lines 433-437: the two copies into artifacts/
copy_artifacts(store, id, files) ==
  [n \in DOMAIN store \cup {FinalName(id), JsonName(id)} |->
     CASE n = FinalName(id) -> files["final.png"]
       [] n = JsonName(id) -> files["result.json"]
       [] OTHER -> store[n]]

\* lines 416-437 with the copies made before the exit code is looked at
harvest_first(rc, files, store, id) ==
  IF {"result.json", "final.png"} \subseteq DOMAIN files
    THEN copy_artifacts(store, id, files) ELSE store

\* lines 416-437: the artifact store after run_in_docker
harvest(rc, files, store, id) ==
  IF rc # 0 THEN store
  ELSE IF ~("result.json" \in DOMAIN files) \/ ~("final.png" \in DOMAIN files) THEN store
  ELSE copy_artifacts(store, id, files)

\* lines 412-447: the process has exited; classify, copy, return
run_in_docker_return ==
  /\ pc = "waiting"
  /\ proc.state = "exited"
  /\ LET rc == proc.returncode
         present == {"result.json", "final.png"} \subseteq DOMAIN work
     IN /\ artifacts' = harvest(rc, work, artifacts, run_id)
        /\ IF rc # 0
             THEN /\ exec_out' = launch_failure(rc, proc.stdout, proc.stderr)
                  /\ pc' = "exec_done"
                  /\ response' = response
             ELSE IF ~present
               THEN /\ exec_out' = protocol_failure(rc, proc.stdout, proc.stderr)
                    /\ pc' = "exec_done"
                    /\ response' = response
             ELSE IF artifacts'[JsonName(run_id)].kind # "json"
               THEN \* line 439: json.loads raises
                    /\ exec_out' = exec_out
                    /\ pc' = "crashed"
                    /\ response' = Unhandled("run_in_docker")
               ELSE /\ exec_out' =
                         [ok |-> TRUE, run_id |-> run_id,
                          result |-> artifacts'[JsonName(run_id)].doc,
                          final_screenshot |-> FinalName(run_id),
                          final_output_json |-> JsonName(run_id),
                          logs |-> [stdout |-> TailChars(proc.stdout, 2000),
                                    stderr |-> TailChars(proc.stderr, 2000)]]
                    /\ pc' = "exec_done"
                    /\ response' = response
  /\ UNCHANGED << groq_client, conc_vars, plan, verdict, data, content, goal, note_text, run_id,
                  vision_summary, runs, work, proc, runner_vars >>

\* lines 508-514 with a second attempt in place of the report
api_run_retry_on_failure ==
  /\ pc = "exec_done"
  /\ ~exec_out.ok
  /\ pc' = "launch"
  /\ UNCHANGED << groq_client, conc_vars, plan, verdict, data, content, goal, note_text, run_id, exec_out,
                  vision_summary, response, store_vars, work, proc, runner_vars >>

\* lines 508-514: the sandbox failed; record it and answer 500
api_run_record_failure ==
  /\ pc = "exec_done"
  /\ ~exec_out.ok
  /\ runs' = [runs EXCEPT ![run_id].result_json = exec_out]
  /\ response' = [status |-> 500, body |-> exec_out]
  /\ pc' = "done"
  /\ UNCHANGED << groq_client, conc_vars, plan, verdict, data, content, goal, note_text, run_id, exec_out,
                  vision_summary, artifacts, work, proc, runner_vars >>

\* lines 223-265 as called at line 518.  how: what reading the screenshot and
\* the vision completion do.
api_run_verify(how) ==
  /\ pc = "exec_done"
  /\ exec_out.ok
  /\ IF ~groq_client
       THEN /\ how = "text"
            /\ vision_summary' = JNull
            /\ pc' = "verified"
            /\ response' = response
       ELSE CASE how = "encode_raises" ->
                   \* line 231 is outside the try
                   /\ vision_summary' = vision_summary
                   /\ pc' = "crashed"
                   /\ response' = Unhandled("groq_vision_verify")
              [] how = "call_raises" ->
                   /\ vision_summary' = JNull
                   /\ pc' = "verified"
                   /\ response' = response
              [] OTHER ->
                   /\ vision_summary' = JStr("The screenshot shows the cart page.")
                   /\ pc' = "verified"
                   /\ response' = response
  /\ UNCHANGED << groq_client, conc_vars, plan, verdict, data, content, goal, note_text, run_id, exec_out,
                  store_vars, work, proc, runner_vars >>

\* lines 520-537: build the payload, record it, answer 200
api_run_record_success ==
  /\ pc = "verified"
  /\ LET payload == [ok |-> TRUE, run_id |-> run_id, plan |-> plan,
                     final_screenshot |-> exec_out.final_screenshot,
                     final_output_json |-> exec_out.final_output_json,
                     result |-> exec_out.result,
                     vision_summary |-> vision_summary,
                     logs |-> exec_out.logs]
     IN /\ runs' = [runs EXCEPT ![run_id].result_json = payload]
        /\ response' = [status |-> 200, body |-> payload]
  /\ pc' = "done"
  /\ UNCHANGED << groq_client, conc_vars, plan, verdict, data, content, goal, note_text, run_id, exec_out,
                  vision_summary, artifacts, work, proc, runner_vars >>

AllStepEnvs == UNION { StepEnvs(tl) : tl \in {"go", "click", "type", ""} }
ReturnCodes == {0, 1, 125}
VerifyOutcomes == {"text", "call_raises", "encode_raises"}

Next ==
  \/ api_run_begin
  \/ \E c \in Contents : groq_call_returns(c)
  \/ groq_call_raises
  \/ api_run_validate
  \/ \E id \in RunIds : api_run_insert(id)
  \/ run_in_docker_launch
  \/ runner_start
  \/ \E d \in Doms : runner_locate(d)
  \/ \E env \in AllStepEnvs : runner_step(env)
  \/ \E html \in {BlankHtml, SmallHtml, LongHtml}, sp \in ExitStreams :
       runner_final_capture(html, sp)
  \/ \E at \in {"title", "screenshot", "content"} :
       runner_final_capture_raises(at, Traceback)
  \/ \E rc \in ReturnCodes, written \in SUBSET {"result.json", "final.png"},
        sp \in StreamPairs : docker_run_other(rc, written, sp)
  \/ run_in_docker_return
  \/ api_run_record_failure
  \/ \E how \in VerifyOutcomes : api_run_verify(how)
  \/ api_run_record_success

Spec == Init /\ [][Next]_vars

(***************************************************************************)
(* Several /api/run handlers at once.  Each handler is taken from its       *)
(* validated plan on (line 497); the container is one step that reads the   *)
(* request of the directory mounted at /work and writes there.  The run     *)
(* table and artifacts/ are the stores of the whole application.            *)
(***************************************************************************)
MaxHandlers == 2

Handlers == 1..MaxHandlers

\* uuid4().hex[:10]: two draws can give the same id
ConcRunIds == {"3f2a9c01de", "b71e04c55a"}

\* the validated plan of handler h: h steps, so that no two handlers run the
\* same plan
ConcPlan(h) == JList([i \in 1..h |-> Step("go", GoArgs(CartUrl))])

single_run_vars ==
  << groq_client, data, content, pc, goal, note_text, plan, verdict, run_id, work, proc,
     r_pc, idx, out, page, loc, dom, exec_out, vision_summary, response >>

InitConc ==
  /\ InitBase
  /\ groq_client = FALSE
  /\ data = JDict(EmptyDict)
  /\ pc = "concurrent"
  /\ plan = JNull
  /\ handlers = [h \in Handlers |->
                   [pc |-> "insert", run_id |-> "", plan |-> ConcPlan(h),
                    exec_out |-> JNull, response |-> NoResponse]]
  /\ work_dirs = EmptyFiles
  /\ procs = [h \in Handlers |-> [state |-> "none", returncode |-> 0, mount |-> ""]]

\* lines 500-504 on a table that takes a second row for an id it has
insert_or_replace(table, id, row) ==
  [raised |-> FALSE, table |-> [k \in DOMAIN table \cup {id} |-> IF k = id THEN row ELSE table[k]]]

\* lines 500-504 on the table of lines 79-85: id is the PRIMARY KEY, the INSERT
\* of an id the table has raises sqlite3.IntegrityError
insert_run(table, id, row) ==
  IF id \in DOMAIN table
    THEN [raised |-> TRUE, table |-> table]
    ELSE [raised |-> FALSE, table |-> (id :> row) @@ table]

\* lines 497-504
conc_insert(h, id) ==
  /\ handlers[h].pc = "insert"
  /\ LET r == insert_run(runs, id, run_row(DefaultGoal, handlers[h].plan))
     IN /\ runs' = r.table
        /\ handlers' = [handlers EXCEPT
                          ![h].run_id = id,
                          ![h].pc = IF r.raised THEN "crashed" ELSE "launch",
                          ![h].response = IF r.raised THEN Unhandled("INSERT") ELSE @]
  /\ UNCHANGED << single_run_vars, artifacts, work_dirs, procs >>

\* lines 385-398: mkdir(exist_ok=True) keeps what the directory holds; the two
\* files are written over whatever is there
written_work_dir(dirs, id, p) ==
  LET before == IF id \in DOMAIN dirs THEN dirs[id] ELSE EmptyFiles
  IN [n \in DOMAIN before \cup {"request.json", "runner.py"} |->
        CASE n = "request.json" -> [kind |-> "json", doc |-> [plan |-> p, headless |-> TRUE]]
          [] n = "runner.py" -> [kind |-> "py", doc |-> [plan |-> JNull, headless |-> TRUE]]
          [] OTHER -> before[n]]

\* lines 385-411: the work directory of the run id, mounted at /work
conc_launch(h) ==
  /\ handlers[h].pc = "launch"
  /\ LET id == handlers[h].run_id
     IN /\ work_dirs' = [d \in DOMAIN work_dirs \cup {id} |->
                           IF d = id THEN written_work_dir(work_dirs, id, handlers[h].plan)
                           ELSE work_dirs[d]]
        /\ procs' = [procs EXCEPT ![h] = [state |-> "running", returncode |-> 0, mount |-> id]]
  /\ handlers' = [handlers EXCEPT ![h].pc = "waiting"]
  /\ UNCHANGED << single_run_vars, store_vars >>

\* lines 306-371 as one step: the runner reads /work/request.json and leaves
\* the files named in written in /work, made from the plan it read
conc_sandbox(h, rc, written) ==
  /\ procs[h].state = "running"
  /\ LET d == procs[h].mount
         p == work_dirs[d]["request.json"].doc.plan
     IN work_dirs' =
          [work_dirs EXCEPT ![d] =
             [n \in DOMAIN work_dirs[d] \cup written |->
                CASE n \in written /\ n = "result.json" ->
                       [kind |-> "json", doc |-> [ok |-> TRUE, steps |-> p.v]]
                  [] n \in written /\ n = "final.png" ->
                       [kind |-> "png", doc |-> [plan |-> p, headless |-> TRUE]]
                  [] OTHER -> work_dirs[d][n]]]
  /\ procs' = [procs EXCEPT ![h].state = "exited", ![h].returncode = rc]
  /\ UNCHANGED << single_run_vars, store_vars, handlers >>

\* lines 412-447
conc_return(h) ==
  /\ handlers[h].pc = "waiting"
  /\ procs[h].state = "exited"
  /\ LET id == handlers[h].run_id
         rc == procs[h].returncode
         files == work_dirs[id]
     IN /\ artifacts' = harvest(rc, files, artifacts, id)
        /\ handlers' =
             [handlers EXCEPT
                ![h].pc = "exec_done",
                ![h].exec_out =
                  IF rc # 0 THEN launch_failure(rc, << >>, << >>)
                  ELSE IF ~({"result.json", "final.png"} \subseteq DOMAIN files)
                    THEN protocol_failure(rc, << >>, << >>)
                  ELSE [ok |-> TRUE, run_id |-> id,
                        result |-> artifacts'[JsonName(id)].doc,
                        final_screenshot |-> FinalName(id),
                        final_output_json |-> JsonName(id),
                        logs |-> [stdout |-> << >>, stderr |-> << >>]]]
  /\ UNCHANGED << single_run_vars, runs, work_dirs, procs >>

\* lines 508-537 with no vision service: the UPDATE of the row of run_id and
\* the answer
conc_record(h) ==
  /\ handlers[h].pc = "exec_done"
  /\ LET e == handlers[h].exec_out
         id == handlers[h].run_id
         body == IF ~e.ok THEN e
                 ELSE [ok |-> TRUE, run_id |-> id, plan |-> handlers[h].plan,
                       final_screenshot |-> e.final_screenshot,
                       final_output_json |-> e.final_output_json,
                       result |-> e.result, vision_summary |-> JNull, logs |-> e.logs]
     IN /\ runs' = [runs EXCEPT ![id].result_json = body]
        /\ handlers' = [handlers EXCEPT
                          ![h].pc = "done",
                          ![h].response = [status |-> IF e.ok THEN 200 ELSE 500, body |-> body]]
  /\ UNCHANGED << single_run_vars, artifacts, work_dirs, procs >>

NextConc ==
  \/ \E h \in Handlers, id \in ConcRunIds : conc_insert(h, id)
  \/ \E h \in Handlers : conc_launch(h)
  \/ \E h \in Handlers, rc \in {0, 1}, written \in SUBSET {"result.json", "final.png"} :
       conc_sandbox(h, rc, written)
  \/ \E h \in Handlers : conc_return(h)
  \/ \E h \in Handlers : conc_record(h)

SpecConc == InitConc /\ [][NextConc]_vars


(***************************************************************************)
(* The closed grammar, stated on its own: what a plan has to look like.    *)
(***************************************************************************)
GrammarKeys == [go |-> {"url"}, click |-> {"text"}, type |-> {"label", "value"}]

WellFormedStep(st) ==
  /\ st.t = "dict"
  /\ {"tool", "args"} \subseteq DOMAIN st.v
  /\ st.v["tool"].t = "str"
  /\ st.v["tool"].v \in {"go", "click", "type"}
  /\ st.v["args"].t = "dict"
  /\ DOMAIN st.v["args"].v = GrammarKeys[st.v["tool"].v]

WellFormedPlan(p) ==
  /\ p.t = "list"
  /\ Len(p.v) \in 1..10
  /\ \A i \in 1..Len(p.v) : WellFormedStep(p.v[i])

PassesValidate(p) == LET r == validate_plan(p) IN ~r.raised /\ r.ok

(***************************************************************************)
(* Claims.                                                                 *)
(***************************************************************************)

\* C1: in api_run, whatever the request and whatever the planner answered,
\* the plan in the run row and the plan written for the sandbox pass
\* validate_plan and are the same plan; a candidate that validate_plan
\* rejected has been replaced by the deterministic plan.
C1_OnlyValidatedPlansRun ==
  /\ \A id \in DOMAIN runs : PassesValidate(runs[id].plan_json)
  /\ "request.json" \in DOMAIN work =>
       /\ PassesValidate(req_plan)
       /\ req_plan = runs[run_id].plan_json
  /\ (pc \in {"insert", "launch"} \/ proc.state # "none") =>
       /\ PassesValidate(plan)
       /\ ~verdict.ok => plan = deterministic_demo_plan(note_text)

\* C1 witness: the sandbox runs the deterministic plan after validate_plan
\* rejected the client's plan for a tool outside the three primitives.
C1_Witness ==
  /\ proc.state = "running"
  /\ ~verdict.ok
  /\ verdict.msg.fmt = "Step {i}: tool '{tool}' not allowed."
  /\ req_plan = deterministic_demo_plan("gift wrap")
  /\ runs[run_id].plan_json = req_plan

\* C2: validate_plan returns valid exactly for the plans of 1 to 10 steps
\* whose every step is a record with tool in {go, click, type} and an args
\* record with exactly that tool's keys.
C2_ValidIffWellFormed ==
  pc = "returned" => ((~verdict.raised /\ verdict.ok) <=> WellFormedPlan(plan))

\* C2 witness: the four-step plan go, click, click, type validates as true.
C2_Witness ==
  /\ pc = "returned"
  /\ plan = deterministic_demo_plan(DefaultNote)
  /\ verdict = Returned(TRUE, "ok", NoIdx)

\* The per-step rules of validate_plan in their order, each as a predicate of
\* its own: rule r is broken by step st.
RuleFmt ==
  << "Step {i} must be an object.",
     "Step {i}: tool '{tool}' not allowed.",
     "Step {i}: args must be an object.",
     "Step {i}: go expects args {url} only.",
     "Step {i}: click expects args {text} only.",
     "Step {i}: type expects args {label, value} only." >>

HasTool(st, name) ==
  st.t = "dict" /\ "tool" \in DOMAIN st.v /\ st.v["tool"] = JStr(name)

ArgsKeys(st) ==
  IF "args" \in DOMAIN st.v
    THEN (IF st.v["args"].t = "dict" THEN DOMAIN st.v["args"].v ELSE {"(not a record)"})
    ELSE {}

RuleBroken(r, st) ==
  CASE r = 1 -> st.t # "dict"
    [] r = 2 -> st.t = "dict" /\ \A name \in {"go", "click", "type"} : ~HasTool(st, name)
    [] r = 3 -> st.t = "dict" /\ "args" \in DOMAIN st.v /\ st.v["args"].t # "dict"
    [] r = 4 -> HasTool(st, "go") /\ ArgsKeys(st) # {"url"}
    [] r = 5 -> HasTool(st, "click") /\ ArgsKeys(st) # {"text"}
    [] OTHER -> HasTool(st, "type") /\ ArgsKeys(st) # {"label", "value"}

\* the first rule a step that is not well formed breaks
FirstBrokenRule(st) ==
  RuleFmt[CHOOSE r \in 1..6 : RuleBroken(r, st) /\ \A q \in 1..(r - 1) : ~RuleBroken(q, st)]

\* the reason the rules give for a plan, first violation only
ExpectedReason(p) ==
  IF p.t # "list" THEN [fmt |-> "Plan must be a list.", i |-> NoIdx]
  ELSE IF Len(p.v) = 0 THEN [fmt |-> "Plan is empty.", i |-> NoIdx]
  ELSE IF Len(p.v) > 10 THEN [fmt |-> "Plan too long (max 10 steps).", i |-> NoIdx]
  ELSE LET bad == { i \in 1..Len(p.v) : ~WellFormedStep(p.v[i]) }
       IN IF bad = {} THEN [fmt |-> "ok", i |-> NoIdx]
          ELSE LET k == CHOOSE i \in bad : \A j \in bad : i <= j
               IN [fmt |-> FirstBrokenRule(p.v[k]), i |-> k - 1]

\* C3: validate_plan returns, with the reason of the first violated rule:
\* not a list, then empty, then too long, then the lowest-index bad step with
\* its index, tool before args.
C3_FirstViolationReported ==
  pc = "returned" => (~verdict.raised /\ verdict.msg = ExpectedReason(plan))

\* What does hold of C3: whenever validate_plan returns at all, the reason is
\* that of the first violated rule; and a plan of length 0 or above 10 always
\* gets the length-specific reason.
C3_ReasonWhenReturned ==
  pc = "returned" =>
    /\ ~verdict.raised => verdict.msg = ExpectedReason(plan)
    /\ (plan.t = "list" /\ (Len(plan.v) = 0 \/ Len(plan.v) > 10)) =>
         /\ ~verdict.raised /\ ~verdict.ok
         /\ verdict.msg.fmt \in {"Plan is empty.", "Plan too long (max 10 steps)."}

\* the planner was asked: the request carried no list as its plan
planner_asked == pc \in {"groq_call", "validate"} /\ ~isinstance(dict_get(data, "plan"), "list")

\* C4: groq_plan never fails outward: no call of it ends in an exception, and
\* the plan it returns passes validate_plan.
C4_PlannerNeverFails ==
  /\ response # Unhandled("groq_plan")
  /\ (planner_asked /\ pc = "validate") => PassesValidate(plan)

\* C5: with a completion service configured, text that is not JSON or that
\* parses to a structure outside the grammar yields exactly the deterministic
\* plan; text that parses to a plan of the grammar is returned unchanged; the
\* returned plan passes validate_plan either way.
C5_FallbackOnBadCompletion ==
  (pc = "validate" /\ content # NoContent) =>
    LET p == json_loads(content)
    IN /\ plan = IF p.err \/ ~WellFormedPlan(p.value)
                   THEN deterministic_demo_plan(note_text) ELSE p.value
       /\ PassesValidate(plan)
       /\ response = NoResponse

\* C5 witness: the completion asked for a tool outside the grammar and the
\* planner returned the deterministic plan.
C5_Witness ==
  /\ pc = "validate"
  /\ content = "[{\"tool\":\"eval\",\"args\":{\"code\":\"fetch('/admin')\"}}]"
  /\ plan = deterministic_demo_plan(note_text)

\* the fixed plan of the spec, written out
FourStepPlan(note) ==
  JList(<< JDict([k \in {"tool", "args"} |-> IF k = "tool" THEN JStr("go")
              ELSE JDict([a \in {"url"} |->
                     JStr("https://chikarahouses.com/products/hardcover-bound-notebook-3")])]),
           JDict([k \in {"tool", "args"} |-> IF k = "tool" THEN JStr("click")
              ELSE JDict([a \in {"text"} |-> JStr("Add to cart")])]),
           JDict([k \in {"tool", "args"} |-> IF k = "tool" THEN JStr("click")
              ELSE JDict([a \in {"text"} |-> JStr("View cart")])]),
           JDict([k \in {"tool", "args"} |-> IF k = "tool" THEN JStr("type")
              ELSE JDict([a \in {"label", "value"} |->
                     IF a = "label" THEN JStr("Order special instructions")
                     ELSE JStr(note)])]) >>)

\* C6: with no completion service configured the planner returns the fixed
\* four-step plan with the note as the value of the type step, whatever the
\* goal is.
C6_NoServiceDeterministic ==
  (~groq_client /\ planner_asked /\ pc = "validate") => plan = FourStepPlan(note_text)

\* C6 witness: the planner answered a request with a goal and a note of its own.
C6_Witness ==
  /\ ~groq_client /\ planner_asked /\ pc = "validate"
  /\ goal = "buy a notebook"
  /\ note_text = "gift wrap"
  /\ plan = FourStepPlan("gift wrap")


\* the runner has loaded a request and built out
runner_ran == "request.json" \in DOMAIN work /\ out.final_screenshot # JNull

\* a StepResult list cut at its first failure: entry i is step i of the plan,
\* every entry before the last is ok, and a failed last entry carries an error
HaltedAtFirstFailure(steps, ok, pl) ==
  LET n == Len(steps)
  IN /\ n <= Len(pl.v)
     /\ \A i \in 1..n :
          /\ steps[i].idx = i - 1
          /\ steps[i].tool = pl.v[i].v["tool"]
          /\ steps[i].args = pl.v[i].v["args"]
          /\ i < n => steps[i].ok
          /\ ~steps[i].ok => steps[i].error \notin {JNull, JStr("")}
     /\ ok <=> \A i \in 1..n : steps[i].ok

\* C7: the runner attempts the steps in plan order and stops at the first
\* failure: when step k is the first to fail, the steps list has exactly k
\* entries in plan order, the first k-1 ok, the k-th not ok with a non-empty
\* error, the overall ok is false, and the loop is never entered again.
C7_HaltAtFirstFailure ==
  runner_ran =>
    /\ HaltedAtFirstFailure(out.steps, out.ok, req_plan)
    /\ Len(out.steps) = idx
    /\ ~out.ok => r_pc \notin {"loop", "located"}
    /\ ("result.json" \in DOMAIN work /\ work["result.json"].kind = "json") =>
         /\ work["result.json"].doc.steps = out.steps
         /\ work["result.json"].doc.ok = out.ok

\* C7 witness: the second of the four steps failed and the result document
\* holds exactly two entries.
C7_Witness ==
  /\ runner_ran
  /\ r_pc = "exited"
  /\ Len(req_plan.v) = 4
  /\ "result.json" \in DOMAIN work
  /\ Len(work["result.json"].doc.steps) = 2
  /\ work["result.json"].doc.steps[1].ok
  /\ ~work["result.json"].doc.steps[2].ok
  /\ ~work["result.json"].doc.ok

NonEmpty(x) == x \notin {JNull, JStr(""), JChars(<< >>)}

\* C8: whenever the step loop has halted and the runner has ended, a result
\* document was written whose final_url, final_title, final_dom_preview and
\* final_screenshot are all non-empty, and the screenshot file was written.
C8_FinalCaptureAlways ==
  (runner_ran /\ r_pc \in {"exited", "crashed"}) =>
    /\ {"result.json", "final.png"} \subseteq DOMAIN work
    /\ work["result.json"].kind = "json"
    /\ NonEmpty(work["result.json"].doc.final_url)
    /\ NonEmpty(work["result.json"].doc.final_title)
    /\ NonEmpty(work["result.json"].doc.final_dom_preview)
    /\ NonEmpty(work["result.json"].doc.final_screenshot)

\* What does hold of C8: a runner that ended normally wrote both files, and the
\* document's final_url, final_dom_preview and final_screenshot are non-empty.
C8_WhenCaptureReturns ==
  (runner_ran /\ r_pc = "exited") =>
    /\ {"result.json", "final.png"} \subseteq DOMAIN work
    /\ NonEmpty(work["result.json"].doc.final_url)
    /\ work["result.json"].doc.final_title # JNull
    /\ NonEmpty(work["result.json"].doc.final_dom_preview)
    /\ NonEmpty(work["result.json"].doc.final_screenshot)

\* t is s[-n:]: the last n characters of s, all of s when it is shorter
IsTailOf(t, s, n) ==
  LET ls == Len(s)
      lt == Len(t)
  IN /\ lt = IF ls < n THEN ls ELSE n
     /\ \A i \in 1..lt : t[i] = s[ls - lt + i]

run_in_docker_returned == pc \in {"exec_done", "done", "verified"}

\* C9: after a non-zero exit run_in_docker returns ok=false with the exit code
\* and the tails of both streams, and the artifact store is as it was, also
\* when result.json and final.png are in the work area.
C9_LaunchFailureCopiesNothing ==
  (run_in_docker_returned /\ proc.returncode # 0) =>
    /\ exec_out.ok = FALSE
    /\ exec_out.docker_returncode = proc.returncode
    /\ IsTailOf(exec_out.stdout, proc.stdout, 3000)
    /\ IsTailOf(exec_out.stderr, proc.stderr, 3000)
    /\ artifacts = EmptyFiles

\* C9 witness: exit code 1 with both files in the work area and a stderr
\* longer than the tail kept.
C9_Witness ==
  /\ run_in_docker_returned
  /\ proc.returncode = 1
  /\ {"result.json", "final.png"} \subseteq DOMAIN work
  /\ Len(proc.stderr) > 3000
  /\ exec_out.docker_returncode = 1

EndsWith(s, suffix) ==
  LET ls == Len(s)
      lx == Len(suffix)
  IN /\ ls >= lx
     /\ \A i \in 1..lx : s[ls - lx + i] = suffix[i]

\* every outcome the launch-failure branch can return
LaunchFailures ==
  { launch_failure(rc, sp.stdout, se) :
      rc \in ReturnCodes \ {0}, sp \in StreamPairs,
      se \in { x.stderr : x \in StreamPairs } \cup { x.stderr \o MissingNote : x \in StreamPairs } }

\* C10: after exit code 0 with result.json or final.png (or both) absent,
\* run_in_docker returns ok=false with exit code 0, which no launch failure
\* carries, its stderr ends with the missing-artifact note however long the
\* captured stderr was, and the artifact store is as it was.
C10_ProtocolFailureDistinct ==
  (run_in_docker_returned /\ proc.returncode = 0
     /\ ~({"result.json", "final.png"} \subseteq DOMAIN work)) =>
    /\ exec_out.ok = FALSE
    /\ exec_out.docker_returncode = 0
    /\ \A f \in LaunchFailures : f # exec_out /\ f.docker_returncode # exec_out.docker_returncode
    /\ EndsWith(exec_out.stderr, MissingNote)
    /\ Len(exec_out.stderr) <= 3000
    /\ artifacts = EmptyFiles

\* C10 witness: exit code 0, the screenshot there and the result document
\* not, and a stderr longer than the tail kept.
C10_Witness ==
  /\ run_in_docker_returned
  /\ proc.returncode = 0
  /\ "final.png" \in DOMAIN work
  /\ "result.json" \notin DOMAIN work
  /\ Len(proc.stderr) > 3000
  /\ ~exec_out.ok

\* a step failed inside the sandbox
step_failed == runner_ran /\ ~out.ok

\* the handler has answered
answered == pc \in {"done", "crashed"}

\* C11: a step failure is a partial failure: the sandbox exits 0 with both
\* artifacts, run_in_docker takes the success path (both copies under the run
\* id, the parsed result returned), and the endpoint answers with the full
\* result document, result.ok false, and the artifact references.
C11_StepFailureIsPartial ==
  /\ (step_failed /\ r_pc \in {"exited", "crashed"}) =>
       /\ proc.returncode = 0
       /\ {"result.json", "final.png"} \subseteq DOMAIN work
  /\ (step_failed /\ run_in_docker_returned) =>
       /\ exec_out.ok
       /\ {FinalName(run_id), JsonName(run_id)} \subseteq DOMAIN artifacts
       /\ exec_out.result = work["result.json"].doc
       /\ ~exec_out.result.ok
  /\ (step_failed /\ answered) =>
       /\ response.status = 200
       /\ response.body.ok
       /\ ~response.body.result.ok
       /\ response.body.result = work["result.json"].doc
       /\ response.body.final_screenshot = FinalName(run_id)
       /\ response.body.final_output_json = JsonName(run_id)

\* What does hold of C11: when the final capture after the failed step returns,
\* the sandbox exits 0 with both artifacts and run_in_docker takes the success
\* path; and every answer the handler builds itself after a failed step is the
\* 200 payload with result.ok false.
C11_WhenCaptureReturns ==
  /\ (step_failed /\ r_pc = "exited") =>
       /\ proc.returncode = 0
       /\ {"result.json", "final.png"} \subseteq DOMAIN work
  /\ (step_failed /\ r_pc = "exited" /\ run_in_docker_returned) =>
       /\ exec_out.ok
       /\ {FinalName(run_id), JsonName(run_id)} \subseteq DOMAIN artifacts
       /\ exec_out.result = work["result.json"].doc
       /\ ~exec_out.result.ok
  /\ (step_failed /\ r_pc = "exited" /\ pc = "done") =>
       /\ response.status = 200
       /\ ~response.body.result.ok
       /\ response.body.result = work["result.json"].doc
       /\ response.body.final_screenshot = FinalName(run_id)

\* C12: the result of an accepted run is written after execution (and, on the
\* success path, verification) completed or failed, and no accepted run ends
\* with its result unset: a row's result is set only once the handler is done,
\* and every handler that has answered after the insert has set it.  That a
\* set result is never written again or deleted is C12_WrittenAtMostOnce.
C12_ResultWrittenOnce ==
  \A id \in DOMAIN runs :
    /\ runs[id].result_json # JNull => pc = "done"
    /\ answered => runs[id].result_json # JNull

\* What does hold of C12: no row is deleted, a row's goal and plan never
\* change, a result once set is never written again, and a handler that
\* returns (done) has set the result of its row.
C12_WrittenAtMostOnce ==
  [][ /\ \A id \in DOMAIN runs :
           /\ id \in DOMAIN runs'
           /\ runs'[id].plan_json = runs[id].plan_json
           /\ runs'[id].user_goal = runs[id].user_goal
           /\ runs[id].result_json # JNull => runs'[id] = runs[id]
      /\ pc' = "done" => runs'[run_id'].result_json # JNull ]_vars

\* C13: the run row with its plan and a null result is in the run store before
\* the sandbox is launched, and its plan is the plan the sandbox is given: from
\* the launch on the row of the run id exists and holds the plan of
\* request.json, and its result stays null as long as the sandbox runs.
C13_RowBeforeLaunch ==
  /\ pc \in {"launch", "waiting"} =>
       /\ run_id \in DOMAIN runs
       /\ runs[run_id] = run_row(goal, plan)
  /\ (proc.state # "none" \/ "request.json" \in DOMAIN work) =>
       /\ run_id \in DOMAIN runs
       /\ runs[run_id].plan_json = req_plan
       /\ runs[run_id].plan_json = plan
       /\ proc.state = "running" => runs[run_id].result_json = JNull

\* C13 witness: the sandbox is resolving the target of a step of a two-step
\* plan while the row of the run holds that plan and no result.
C13_Witness ==
  /\ proc.state = "running"
  /\ r_pc = "located"
  /\ Len(req_plan.v) = 2
  /\ runs[run_id].plan_json = req_plan
  /\ runs[run_id].result_json = JNull

\* the handler is past the launch of its sandbox
launched == pc \in {"waiting", "exec_done", "verified", "done"}

\* C14: no retry.  In every step of a run: a sandbox process that exists is
\* never replaced by a new one (a running process stays or exits, an exited
\* one stays as it is, the runner never starts over and request.json is never
\* rewritten), a handler past the launch never comes back to it, and a handler
\* that is done after a failed sandbox has answered 500 with, and recorded,
\* the launch-failure or protocol-failure outcome of that one process, with
\* nothing in the artifact store.
C14_NoRetry ==
  [][ /\ proc.state # "none" =>
           /\ proc'.state \in {"running", "exited"}
           /\ proc.state = "exited" => proc' = proc
           /\ work'["request.json"] = work["request.json"]
      /\ r_pc # "none" => r_pc' \notin {"none", "start"} \/ r_pc' = r_pc
      /\ (launched \/ (pc = "crashed" /\ proc.state # "none")) =>
           pc' \in {"waiting", "exec_done", "verified", "done", "crashed"}
      /\ (pc' = "done" /\ ~exec_out'.ok) =>
           /\ pc = "exec_done" /\ exec_out' = exec_out
           /\ exec_out \in { launch_failure(proc.returncode, proc.stdout, proc.stderr),
                             protocol_failure(proc.returncode, proc.stdout, proc.stderr) }
           /\ response' = [status |-> 500, body |-> exec_out]
           /\ runs'[run_id].result_json = exec_out
           /\ artifacts' = EmptyFiles ]_vars

\* C14 witness: the one sandbox exited 0 without its result document and the
\* handler has answered 500 with the protocol-failure outcome and recorded it.
C14_Witness ==
  /\ pc = "done"
  /\ proc.state = "exited" /\ proc.returncode = 0
  /\ "result.json" \notin DOMAIN work
  /\ response = [status |-> 500, body |-> protocol_failure(0, proc.stdout, proc.stderr)]
  /\ runs[run_id].result_json = response.body

\* run_in_docker returned the success outcome
sandbox_succeeded == exec_out # JNull /\ exec_out.ok

\* C15: verification never gates a run: groq_vision_verify never raises, it
\* returns nothing when no service is configured, and every run whose sandbox
\* execution succeeded is answered with the success payload, which is recorded
\* as the run's result.
C15_VerificationNeverGates ==
  /\ response # Unhandled("groq_vision_verify")
  /\ (pc \in {"verified", "done"} /\ sandbox_succeeded /\ ~groq_client) => vision_summary = JNull
  /\ (answered /\ sandbox_succeeded) =>
       /\ response.status = 200
       /\ response.body.ok
       /\ response.body.result = exec_out.result
       /\ runs[run_id].result_json = response.body

\* What does hold of C15: with no service configured nothing is returned and
\* the run is answered with the payload; with a service, a raising completion
\* call gives nothing and the handler goes on; every handler that returns
\* after a successful sandbox answers 200 with the recorded payload, whatever
\* the summary.
C15_WhenEncodingReturns ==
  /\ (pc \in {"verified", "done"} /\ sandbox_succeeded /\ ~groq_client) => vision_summary = JNull
  /\ (answered /\ sandbox_succeeded /\ ~groq_client) => pc = "done"
  /\ (pc = "done" /\ sandbox_succeeded) =>
       /\ response.status = 200
       /\ response.body.ok
       /\ response.body.result = exec_out.result
       /\ response.body.vision_summary = vision_summary
       /\ runs[run_id].result_json = response.body

\* handler h has reached sandbox execution
reached_sandbox(h) == handlers[h].pc \in {"waiting", "exec_done", "done"}

\* what the sandbox of a run with plan p writes
OwnResult(p) == [kind |-> "json", doc |-> [ok |-> TRUE, steps |-> p.v]]
OwnScreenshot(p) == [kind |-> "png", doc |-> [plan |-> p, headless |-> TRUE]]

\* C16: concurrent runs are isolated.  No two handlers that reach sandbox
\* execution share a run id, a mounted work directory or an artifact name; the
\* work directory, the artifacts and the row of a run hold only what that run
\* and its own sandbox wrote, and a run returns only its own result.
C16_RunsIsolated ==
  /\ \A h1, h2 \in Handlers :
       (h1 # h2 /\ reached_sandbox(h1) /\ reached_sandbox(h2)) =>
         /\ handlers[h1].run_id # handlers[h2].run_id
         /\ procs[h1].mount # procs[h2].mount
         /\ {FinalName(handlers[h1].run_id), JsonName(handlers[h1].run_id)}
              \cap {FinalName(handlers[h2].run_id), JsonName(handlers[h2].run_id)} = {}
  /\ \A h \in Handlers :
       reached_sandbox(h) =>
         LET id == handlers[h].run_id
             p == handlers[h].plan
         IN /\ procs[h].mount = id
            /\ work_dirs[id]["request.json"].doc.plan = p
            /\ "result.json" \in DOMAIN work_dirs[id] => work_dirs[id]["result.json"] = OwnResult(p)
            /\ "final.png" \in DOMAIN work_dirs[id] => work_dirs[id]["final.png"] = OwnScreenshot(p)
            /\ JsonName(id) \in DOMAIN artifacts => artifacts[JsonName(id)] = OwnResult(p)
            /\ FinalName(id) \in DOMAIN artifacts => artifacts[FinalName(id)] = OwnScreenshot(p)
            /\ runs[id].plan_json = p
            /\ (handlers[h].pc \in {"exec_done", "done"} /\ handlers[h].exec_out.ok) =>
                 /\ handlers[h].exec_out.run_id = id
                 /\ handlers[h].exec_out.result = OwnResult(p).doc
            /\ runs[id].result_json # JNull =>
                 /\ handlers[h].pc = "done"
                 /\ runs[id].result_json = handlers[h].response.body
                 /\ runs[id].result_json.ok => runs[id].result_json.plan = p

\* C16 witness: while the sandbox of one run is still running, another run
\* under a different id has its own result back from run_in_docker.
C16_Witness ==
  /\ procs[1].state = "running"
  /\ handlers[2].pc = "exec_done" /\ handlers[2].exec_out.ok
  /\ handlers[1].run_id # handlers[2].run_id
  /\ work_dirs[handlers[1].run_id]["request.json"].doc.plan = ConcPlan(1)
  /\ handlers[2].exec_out.result.steps = ConcPlan(2).v

\* the three tiers of a tool's fallback chain, in order
Tiers(tool) ==
  IF tool = JStr("click") THEN << "role=button", "role=link", "text=" >>
  ELSE << "label", "placeholder", "text= .. textarea, input" >>

\* the tier the chain has to end with on a page with match counts d: the
\* first with a match, the last when none has one
FirstMatchingTier(d) == IF d.a > 0 THEN 1 ELSE IF d.b > 0 THEN 2 ELSE 3

\* C17: for a click and for a type step the locator the helper acts on is that
\* of the first tier with a match (the link or placeholder tier only when the
\* first has none, the text tier only when the first two have none), the
\* action goes to that locator, and the step fails when no tier matches.
C17_FallbackChain ==
  [][ r_pc = "located" =>
        LET tiers == Tiers(cur_step.v["tool"])
        IN /\ loc = tiers[FirstMatchingTier(dom)]
           /\ loc = tiers[2] => dom.a = 0
           /\ loc = tiers[3] => dom.a = 0 /\ dom.b = 0
           /\ idx' = idx + 1 =>
                LET step_out == out'.steps[idx + 1]
                IN /\ step_out.ok => locator_count(loc, dom) > 0
                   /\ (dom.a = 0 /\ dom.b = 0 /\ dom.c = 0) =>
                        /\ ~step_out.ok /\ ~out'.ok
                        /\ step_out.error \notin {JNull, JStr("")} ]_vars

\* C17 witness: a click step on a page where no button, but a link and a text
\* node match: the link tier is the one chosen.
C17_Witness ==
  /\ r_pc = "located"
  /\ cur_step.v["tool"] = JStr("click")
  /\ dom = [a |-> 0, b |-> 1, c |-> 1]
  /\ loc = "role=link"

\* the result document the runner wrote, when it wrote one
runner_wrote_result ==
  "result.json" \in DOMAIN work /\ work["result.json"].kind = "json"

\* C18: in every result document the runner writes, ok is true exactly when
\* every recorded step is ok; at most one recorded step is failed and it is
\* the last; entry i has idx i (from 0) and the tool and args of plan step i;
\* and an ok document has one entry per plan step.
C18_ResultDocumentShape ==
  runner_wrote_result =>
    LET d == work["result.json"].doc
        n == Len(d.steps)
        failed == { i \in 1..n : ~d.steps[i].ok }
    IN /\ d.ok <=> failed = {}
       /\ Cardinality(failed) <= 1
       /\ failed \subseteq {n}
       /\ n <= Len(req_plan.v)
       /\ \A i \in 1..n :
            /\ d.steps[i].idx = i - 1
            /\ d.steps[i].tool = req_plan.v[i].v["tool"]
            /\ d.steps[i].args = req_plan.v[i].v["args"]
       /\ d.ok => n = Len(req_plan.v)
       /\ ~d.ok => n >= 1

\* C18 witness: the four-step plan ran to its end and the document holds four
\* ok entries.
C18_Witness ==
  /\ runner_wrote_result
  /\ work["result.json"].doc.ok
  /\ Len(work["result.json"].doc.steps) = 4
  /\ work["result.json"].doc.steps[4].idx = 3
  /\ work["result.json"].doc.steps[4].tool = JStr("type")

\* the errors of a step whose shape the runner cannot use: a key it reads is
\* not there, or the tool is none of its three branches
StructuralErrors ==
  { JStr("KeyError: 'url'"), JStr("KeyError: 'text'"), JStr("KeyError: 'label'"),
    JStr("KeyError: 'value'"), JStr("Unknown tool: {tool}") }

\* the runner finds all it reads in step st
ReadsFound(st) ==
  /\ st.t = "dict"
  /\ "tool" \in DOMAIN st.v /\ "args" \in DOMAIN st.v
  /\ st.v["tool"] \in {JStr("go"), JStr("click"), JStr("type")}
  /\ st.v["args"].t = "dict"
  /\ st.v["tool"] = JStr("go") => "url" \in DOMAIN st.v["args"].v
  /\ st.v["tool"] = JStr("click") => "text" \in DOMAIN st.v["args"].v
  /\ st.v["tool"] = JStr("type") => {"label", "value"} \subseteq DOMAIN st.v["args"].v

\* C19: the plan the runner is given passed validate_plan, so the step loop
\* finds the tool, the args and every args key it reads in each step, never
\* takes the unknown-tool branch, records no step failed for a missing key or
\* an unknown tool, and never dies inside the loop: a runner that crashed did
\* so in the final capture, after the loop.
C19_ValidatedPlanFitsRunner ==
  (proc.state # "none" /\ r_pc # "none") =>
    /\ \A i \in 1..Len(req_plan.v) : ReadsFound(req_plan.v[i])
    /\ \A i \in 1..Len(out.steps) : out.steps[i].error \notin StructuralErrors
    /\ r_pc = "crashed" =>
         /\ out.final_url # JNull
         /\ Len(out.steps) = Len(req_plan.v) \/ ~out.ok

\* C19 witness: a client's plan whose url is null passed validate_plan, and
\* the runner recorded the go step as failed by the navigation.
C19_Witness ==
  /\ r_pc = "exited"
  /\ req_plan.v[1] = Step("go", [k \in {"url"} |-> JNull])
  /\ Len(out.steps) = 1
  /\ out.steps[1].error = JStr("Page.goto: url: expected string")

\* the three outcomes of run_in_docker for the exited process
IsLaunchFailure(e) == ~e.ok /\ e.docker_returncode # 0
IsProtocolFailure(e) == ~e.ok /\ e.docker_returncode = 0
IsSuccess(e) == e.ok

\* C20: the orchestrator blocks on the sandbox with no timeout: run_in_docker
\* has returned an outcome (exactly one of launch failure, protocol failure,
\* success) only when the process has exited; while the process runs the
\* handler waits, nothing is returned and no result is recorded; and a run
\* whose process exited ends with an outcome returned and its result recorded.
C20_BlocksUntilExit ==
  /\ run_in_docker_returned =>
       /\ proc.state = "exited"
       /\ IsLaunchFailure(exec_out) <=> proc.returncode # 0
       /\ IsSuccess(exec_out) <=>
            (proc.returncode = 0 /\ {"result.json", "final.png"} \subseteq DOMAIN work)
       /\ IsProtocolFailure(exec_out) <=>
            (proc.returncode = 0 /\ ~({"result.json", "final.png"} \subseteq DOMAIN work))
  /\ proc.state = "running" =>
       /\ pc = "waiting"
       /\ exec_out = JNull
       /\ response = NoResponse
       /\ runs[run_id].result_json = JNull
  /\ (answered /\ proc.state = "exited") =>
       /\ exec_out # JNull
       /\ runs[run_id].result_json # JNull

\* What does hold of C20: an outcome is returned only after the exit, and is
\* the outcome of the exit code and the artifacts; a running process keeps the
\* handler waiting with nothing returned or recorded; and every handler that
\* returns after the exit has recorded its result.
C20_ReturnsOnlyAfterExit ==
  /\ run_in_docker_returned =>
       /\ proc.state = "exited"
       /\ IsLaunchFailure(exec_out) <=> proc.returncode # 0
       /\ IsSuccess(exec_out) <=>
            (proc.returncode = 0 /\ {"result.json", "final.png"} \subseteq DOMAIN work)
  /\ proc.state = "running" =>
       /\ pc = "waiting"
       /\ exec_out = JNull
       /\ runs[run_id].result_json = JNull
  /\ (pc = "done" /\ proc.state = "exited") => runs[run_id].result_json # JNull

====
